---- MODULE Spec2Model ----
(***************************************************************************)
(* Consensus state machine of tiny-crypto: NodeState (block manager, best  *)
(* chain, UTXO set, mempool) driven by NewBlock / NewTransaction messages. *)
(*                                                                         *)
(* Hashes are collision free: sha256d is modelled by a table lookup that   *)
(* is injective on the finite universe of headers / transaction bodies.    *)
(* Hash 0 is Hash::default() (32 zero bytes).  A handle (Arc) to a chain   *)
(* node is the block hash under which the block manager stores the node;   *)
(* handle 0 is Option::None.                                               *)
(*                                                                         *)
(* Seven specifications: Spec is the node under NewBlock / NewTransaction  *)
(* messages; BlockSpec is the node fed with blocks only, among them blocks *)
(* that break the rules of isolated validation; TxStateSpec is the         *)
(* TransactionState of transaction.rs fed with transactions; MinerSpec is  *)
(* the node that also builds blocks from its mempool (Node::into_block);   *)
(* PoolSpec is the node under transactions that spend outputs of pending   *)
(* transactions; ValueSpec is the node fed with blocks that spend an       *)
(* output against the rules of ownership and value; FunctionSpec calls     *)
(* the pure functions on inputs drawn from bounded sets.                   *)
(***************************************************************************)
EXTENDS Integers, Sequences, FiniteSets, TLC

VARIABLES blocks, nodes, orphan_blocks, chain, utxo_set, mem_pool, last,
          state_transactions, state_uxto_set, built, call

vars == <<blocks, nodes, orphan_blocks, chain, utxo_set, mem_pool, last,
          state_transactions, state_uxto_set, built, call>>

\* Capacity handed to MemPool::new(size).
MemPoolSize == 3

GENESIS_BLOCK_REWARD == 50

BLOCKS_PER_REWARD_HALVING == 10

\* BlockHeader::difficulty_target rejects difficulty >= 32 (the hash width in bytes).
HASH_BYTES == 32

\* u8::MAX: the largest difficulty a header can carry, and the byte 0xFF.
U8_MAX == 255

\* Width of the u32 in which block_reward raises 2 to the number of halvings.
U32_BITS == 32

\* Block::new stamps a header with chrono::Utc::now(); the headers of the
\* table below were stamped earlier, at 0.
Now == 1

\* The key pair of NodeConfig.
NodeKeypair == "alice"

\* Number of blocks the node builds with into_block.
MaxBuilt == 1

\* Largest height block_reward is called with.
MaxHeight == 330

\* Largest difficulty that is mined.
MaxMinedDifficulty == 3

\* Largest index output_reference is called with.
MaxIndex == 3

\* Largest number of blocks in an order of arrival.
MaxOrder == 3

ZeroHash == 0

NoNode == 0

----------------------------------------------------------------------------
(* crypto.rs *)

KeyPairs == {"bob", "alice", "carol"}

\* Address::from_public_key: an injective rendering of the public key.
AddressTable == [bob |-> "1Bob", alice |-> "1Alice", carol |-> "1Carol"]

Address_from_public_key(public_key) == AddressTable[public_key]

----------------------------------------------------------------------------
(* transaction.rs / utxo_set.rs: transactions *)

Coinbase(h) == [type |-> "Coinbase", block_height |-> h]

Reference(id, index) == [type |-> "Reference", reference |-> [id |-> id, index |-> index]]

Output(value, key) == [value |-> value, address |-> Address_from_public_key(key)]

\* 2u32.pow(exp) with exp >= 32 overflows the u32: the debug build panics on
\* the multiplication, the release build wraps the power to 0 and panics on
\* the division by it.  Either way the call aborts.
block_reward_aborts(height) == height \div BLOCKS_PER_REWARD_HALVING >= U32_BITS

\* block_reward: GENESIS_BLOCK_REWARD / 2u32.pow(height / BLOCKS_PER_REWARD_HALVING),
\* the value returned when the call does not abort.  (2^31 is a u32 above
\* GENESIS_BLOCK_REWARD; it is beyond the integers of the checker, so the
\* quotient 0 is written out for the exponents from 31 on.)
block_reward(height) ==
    IF height \div BLOCKS_PER_REWARD_HALVING >= U32_BITS - 1 THEN 0
    ELSE GENESIS_BLOCK_REWARD \div (2 ^ (height \div BLOCKS_PER_REWARD_HALVING))

\* The transaction bodies that exist in the modelled network.  The position
\* of a body in this table is its txid (sha256d of its canonical bytes).
TxBodies == <<
    [input |-> Coinbase(1), outputs |-> <<Output(block_reward(1), "bob")>>],
    [input |-> Coinbase(2), outputs |-> <<Output(block_reward(2), "bob")>>],
    [input |-> Coinbase(2), outputs |-> <<Output(block_reward(2), "alice")>>],
    [input |-> Coinbase(3), outputs |-> <<Output(block_reward(3), "alice")>>],
    [input |-> Reference(1, 0),
     outputs |-> <<Output(GENESIS_BLOCK_REWARD \div 2, "alice"),
                   Output(GENESIS_BLOCK_REWARD \div 2, "bob")>>],
    [input |-> Reference(1, 0), outputs |-> <<Output(GENESIS_BLOCK_REWARD, "carol")>>],
    [input |-> Coinbase(2), outputs |-> <<Output(block_reward(2) + 1, "carol")>>],
    [input |-> Coinbase(1), outputs |-> <<Output(block_reward(1), "carol")>>],
    [input |-> Reference(5, 0), outputs |-> <<Output(GENESIS_BLOCK_REWARD \div 2, "carol")>>],
    [input |-> Coinbase(4), outputs |-> <<Output(block_reward(4), "alice")>>],
    [input |-> Coinbase(5), outputs |-> <<Output(block_reward(5), "alice")>>],
    [input |-> Coinbase(6), outputs |-> <<Output(block_reward(6), "alice")>>],
    [input |-> Reference(1, 0), outputs |-> <<Output(2 * GENESIS_BLOCK_REWARD, "carol")>>] >>

\* Transaction::id: the hash of the body only; the signature does not enter.
TxId(body) == CHOOSE i \in 1..Len(TxBodies) : TxBodies[i] = body

\* KeyPair::sign: the signature binds the signing key and the signed digest.
Sign(key, body) == [key |-> key, digest |-> TxId(body)]

\* TransactionBody::into_tx
into_tx(body, key) ==
    [body |-> body, signing_info |-> [public_key |-> key, signature |-> Sign(key, body)]]

\* Transaction::verify_signature
verify_signature(tx) ==
    tx.signing_info.signature = Sign(tx.signing_info.public_key, tx.body)

\* KeyedSignature::verify: the signature was made with the attached key over
\* the bytes of this transaction.
KeyedSignature_verify(tx) ==
    tx.signing_info.signature = Sign(tx.signing_info.public_key, tx.body)

\* A transaction whose keyed_signature is None.
Unsigned(body) ==
    [body |-> body,
     signing_info |-> [public_key |-> "none", signature |-> [key |-> "none", digest |-> 0]]]

\* Transaction::verify: Err without a keyed signature, else Ok(true) or
\* Ok(false).
Transaction_verify(tx) ==
    IF tx.signing_info.public_key = "none" THEN "Err"
    ELSE IF KeyedSignature_verify(tx) THEN "Ok(true)" ELSE "Ok(false)"

\* Transaction::as_bytes: the canonical bytes.  The Encode of the input writes
\* its content only, so the bytes are those of the input content and of the
\* outputs, the fields of the body.
as_bytes(tx) == tx.body

\* An id over bytes that hold the keyed signature along with the body.
Transaction_id_signed(tx) == <<TxId(as_bytes(tx)), tx.signing_info>>

\* Transaction::id: sha256d of the canonical bytes.
Transaction_id(tx) == TxId(as_bytes(tx))

\* Transaction::sign: sign the canonical bytes and attach the keyed signature.
Transaction_sign(tx, key) ==
    [tx EXCEPT !.signing_info = [public_key |-> key, signature |-> Sign(key, as_bytes(tx))]]

\* Transaction::new_coinbase
new_coinbase(keypair, block_height, value) ==
    Transaction_sign(
        Unsigned([input |-> Coinbase(block_height), outputs |-> <<Output(value, keypair)>>]),
        keypair)

\* output_reference that refuses only an index above the number of outputs.
output_reference_inclusive(tx, index) ==
    IF index > Len(tx.body.outputs)
    THEN [ok |-> FALSE, reference |-> [id |-> 0, index |-> index]]
    ELSE [ok |-> TRUE, reference |-> [id |-> Transaction_id(tx), index |-> index]]

\* Transaction::output_reference (index is 0-based as in the source): an
\* error for an index at or beyond the number of outputs, else the reference.
output_reference(tx, index) ==
    IF index >= Len(tx.body.outputs)
    THEN [ok |-> FALSE, reference |-> [id |-> 0, index |-> index]]
    ELSE [ok |-> TRUE, reference |-> [id |-> Transaction_id(tx), index |-> index]]

----------------------------------------------------------------------------
(* utxo_set.rs: UTXOSet.outputs is a map reference -> creating transaction *)

EmptyMap == <<>>

MapRemove(m, k) == [x \in DOMAIN m \ {k} |-> m[x]]

\* update that leaves the referenced output in the set.
update_keeps_spent(outputs, transaction) ==
    LET input == transaction.body.input
        new_unspent_outputs ==
            {[id |-> TxId(transaction.body), index |-> i - 1] :
                i \in 1..Len(transaction.body.outputs)}
    IN  IF input.type = "Reference" /\ input.reference \notin DOMAIN outputs
        THEN [ok |-> FALSE, outputs |-> outputs]
        ELSE [ok |-> TRUE,
              outputs |-> [r \in DOMAIN outputs \cup new_unspent_outputs |->
                             IF r \in new_unspent_outputs THEN transaction ELSE outputs[r]]]

\* UTXOSet::update: remove the referenced output (error when absent, before
\* anything is inserted), then insert one reference per output.
update(outputs, transaction) ==
    LET input == transaction.body.input
        spent == IF input.type = "Reference"
                 THEN MapRemove(outputs, input.reference)
                 ELSE outputs
        new_unspent_outputs ==
            {output_reference(transaction, i - 1).reference :
                i \in 1..Len(transaction.body.outputs)}
    IN  IF input.type = "Reference" /\ input.reference \notin DOMAIN outputs
        THEN [ok |-> FALSE, outputs |-> outputs]
        ELSE [ok |-> TRUE,
              outputs |-> [r \in DOMAIN spent \cup new_unspent_outputs |->
                             IF r \in new_unspent_outputs THEN transaction ELSE spent[r]]]

RECURSIVE SumValues(_)
\* outputs.iter().map(|o| o.value).sum::<u64>()
SumValues(outputs) ==
    IF outputs = <<>> THEN 0 ELSE Head(outputs).value + SumValues(Tail(outputs))

\* UTXOSet::validate_transaction: "ok" or the error it returns.
validate_transaction(outputs, transaction) ==
    LET input == transaction.body.input IN
    IF ~verify_signature(transaction) THEN "InvalidSignature"
    ELSE IF input.type # "Reference" THEN "ok"
    ELSE IF input.reference \notin DOMAIN outputs THEN "DoubleSpend"
    ELSE LET spent_tx == outputs[input.reference]
             index == input.reference.index
         IN  IF index >= Len(spent_tx.body.outputs) THEN "OutOfBounds"
             ELSE LET output == spent_tx.body.outputs[index + 1] IN
                  IF output.address
                        # Address_from_public_key(transaction.signing_info.public_key)
                  THEN "InputOutputMismatch"
                  ELSE IF SumValues(transaction.body.outputs) # output.value
                  THEN "InputOutputMismatch"
                  ELSE "ok"

----------------------------------------------------------------------------
(* transaction.rs: TransactionState, with its UTXOSet (a set of references) *)

\* transaction.rs UTXOSet::update on a set of references.
uxto_set_update(outputs, transaction) ==
    LET input == transaction.body.input
        new_unspent_outputs ==
            {output_reference(transaction, i - 1).reference :
                i \in 1..Len(transaction.body.outputs)}
    IN  IF input.type = "Reference" /\ input.reference \notin outputs
        THEN [ok |-> FALSE, outputs |-> outputs]
        ELSE [ok |-> TRUE,
              outputs |-> ((IF input.type = "Reference"
                            THEN outputs \ {input.reference} ELSE outputs)
                           \cup new_unspent_outputs)]

\* TransactionState::validate_transaction: `transaction.verify()?` passes on
\* Ok(true) and on Ok(false) alike; the address of the spent output is
\* compared with the key that signed the transaction holding that output.
TransactionState_validate_transaction(txMap, outputs, transaction) ==
    LET input == transaction.body.input IN
    IF Transaction_verify(transaction) = "Err" THEN "NoKeyedSignature"
    ELSE IF input.type # "Reference" THEN "ok"
    ELSE IF input.reference.id \notin DOMAIN txMap THEN "ReferenceNotFound"
    ELSE IF input.reference \notin outputs THEN "AlreadySpent"
    ELSE LET tx == txMap[input.reference.id]
             index == input.reference.index
         IN  IF index >= Len(tx.body.outputs) THEN "IndexNotFound"
             ELSE IF tx.signing_info.public_key = "none" THEN "NotSigned"
             ELSE LET output == tx.body.outputs[index + 1] IN
                  IF output.address # Address_from_public_key(tx.signing_info.public_key)
                  THEN "AddressMismatch"
                  ELSE IF SumValues(transaction.body.outputs) # output.value
                  THEN "ValueMismatch"
                  ELSE "ok"

\* TransactionState::add_transaction: validate, update the set, record the
\* transaction under its id.
TransactionState_add_transaction(txMap, outputs, transaction) ==
    LET v == TransactionState_validate_transaction(txMap, outputs, transaction)
        u == uxto_set_update(outputs, transaction)
    IN  IF v # "ok" THEN [result |-> v, transactions |-> txMap, uxto_set |-> outputs]
        ELSE IF ~u.ok
        THEN [result |-> "ReferenceNotFound", transactions |-> txMap, uxto_set |-> outputs]
        ELSE [result |-> "ok",
              transactions |-> (TxId(transaction.body) :> transaction) @@ txMap,
              uxto_set |-> u.outputs]

----------------------------------------------------------------------------
(* mem_pool.rs *)

\* is_full with > in place of >=.
is_full_above(pending_transactions) == Len(pending_transactions) > MemPoolSize

\* MemPool::is_full
is_full(pending_transactions) == Len(pending_transactions) >= MemPoolSize

RECURSIVE ApplyAll(_, _)
\* for tx in txs { set.update(tx)? }: stops at the first failing update and
\* keeps what was applied before it.
ApplyAll(outputs, txs) ==
    IF txs = <<>> THEN [ok |-> TRUE, outputs |-> outputs]
    ELSE LET r == update(outputs, Head(txs)) IN
         IF r.ok THEN ApplyAll(r.outputs, Tail(txs)) ELSE r

\* add that validates against the UTXO set itself, not against the set the
\* pending transactions project.
MemPoolAdd_unprojected(pending_transactions, outputs, transaction) ==
    IF is_full(pending_transactions)
    THEN [result |-> "MemPoolFull", pending |-> pending_transactions]
    ELSE LET v == validate_transaction(outputs, transaction) IN
         IF v # "ok"
         THEN [result |-> v, pending |-> pending_transactions]
         ELSE [result |-> "ok", pending |-> Append(pending_transactions, transaction)]

\* MemPool::add: the error it returns or "ok", and the pending list after.
MemPoolAdd(pending_transactions, outputs, transaction) ==
    IF is_full(pending_transactions)
    THEN [result |-> "MemPoolFull", pending |-> pending_transactions]
    ELSE LET pending_utxo_set == ApplyAll(outputs, pending_transactions) IN
         IF ~pending_utxo_set.ok
         THEN [result |-> "DoubleSpend", pending |-> pending_transactions]
         ELSE LET v == validate_transaction(pending_utxo_set.outputs, transaction) IN
              IF v # "ok"
              THEN [result |-> v, pending |-> pending_transactions]
              ELSE [result |-> "ok", pending |-> Append(pending_transactions, transaction)]

----------------------------------------------------------------------------
(* block.rs: headers, proof of work, block validation *)

Header(previous_block_hash, merkle_root, difficulty, nonce) ==
    [previous_block_hash |-> previous_block_hash, merkle_root |-> merkle_root,
     timestamp |-> 0, difficulty |-> difficulty, nonce |-> nonce]

\* The headers that exist in the modelled network.  The position of a header
\* in this table is its block hash (sha256d of its 77 canonical bytes), so a
\* previous_block_hash names an earlier position and 0 is the zero hash.
\* The merkle root of a transaction list is modelled by the list of txids.
Headers == <<
    Header(ZeroHash, <<1>>, 0, 11),     \* 1: A1  height 1, no predecessor
    Header(1, <<2, 5>>, 0, 12),         \* 2: A2  on A1, spends the A1 coinbase
    Header(1, <<3>>, 0, 13),            \* 3: B2  on A1, same work as A2
    Header(3, <<4, 6>>, 0, 14),         \* 4: B3  on B2, spends the A1 coinbase
    Header(2, <<4, 5>>, 0, 15),         \* 5: X3  on A2, spends the A1 coinbase again
    Header(1, <<1>>, 0, 16),            \* 6: H1  on A1 but declares height 1
    Header(1, <<2>>, 1, 17),            \* 7: P2  on A1, hash misses its target
    Header(1, <<2>>, 0, 18),            \* 8: M2  on A1, root of another transaction list
    Header(1, <<2, 6>>, 0, 19),         \* 9: S2  on A1, holds a transaction with a bad signature
    Header(1, <<7>>, 0, 20),            \* 10: R2 on A1, coinbase above the block reward
    Header(1, <<8>>, 0, 21),            \* 11: K2 on A1, coinbase made for height 1
    Header(1, <<5, 2>>, 0, 22),         \* 12: N2 on A1, coinbase not in first place
    Header(1, <<4>>, 0, 23),            \* 13: J3 on A1 but declares height 3
    Header(1, <<2, 13>>, 0, 24),        \* 14: W2 on A1, spends the A1 coinbase for twice its value
    Header(13, <<2>>, 0, 25) >>         \* 15: Z2 on J3 but declares height 2

\* Number of leading zero bytes of each header's hash.
LeadingZeroBytes == <<0, 0, 0, 0, 0, 0, 0, 0, 0, 0, 0, 0, 0, 0, 0>>

\* BlockHeader::hash as an identifier: the position of the header in the table
\* or, for a header the node built itself, a position behind the table in the
\* order of building (the next free position for a header not yet recorded).
HashOf(header) ==
    IF \E i \in 1..Len(Headers) : Headers[i] = header
    THEN CHOOSE i \in 1..Len(Headers) : Headers[i] = header
    ELSE Len(Headers)
            + (IF \E j \in 1..Len(built) : built[j].header = header
               THEN CHOOSE j \in 1..Len(built) : built[j].header = header
               ELSE Len(built) + 1)

\* A 32-byte value, most significant byte first: `zeros` zero bytes, then the
\* byte `lead`, then `fill` in every byte that is left.
Bytes32(zeros, lead, fill) ==
    [i \in 1..HASH_BYTES |-> IF i <= zeros THEN 0 ELSE IF i = zeros + 1 THEN lead ELSE fill]

RECURSIVE TrailingZeroBits(_)
\* Number of times 2 divides n (n >= 1).
TrailingZeroBits(n) == IF n % 2 = 1 THEN 0 ELSE 1 + TrailingZeroBits(n \div 2)

\* The hash bytes of the headers of the table.
TableHashBytes == [i \in 1..Len(Headers) |-> Bytes32(LeadingZeroBytes[i], 127, 17)]

\* BlockHeader::hash as bytes.  sha256d is modelled by a fixed scattering: a
\* header of the table hashes to the bytes the table records for it; any other
\* header hashes to bytes determined by its fields, the nonce among them, so
\* that hashes with any number of leading zero bytes, hashes equal to a target
\* and hashes just above a target all occur along a nonce search.
HashBytes(header) ==
    IF \E i \in 1..Len(Headers) : Headers[i] = header
    THEN TableHashBytes[HashOf(header)]
    ELSE LET n == header.nonce + header.previous_block_hash + Len(header.merkle_root)
                     + header.timestamp
         IN  IF n % 3 = 0 THEN Bytes32(TrailingZeroBits(n), U8_MAX, 0)
             ELSE IF n % 3 = 1 THEN Bytes32(TrailingZeroBits(n), U8_MAX, 1)
             ELSE Bytes32(TrailingZeroBits(n), 60, 200)

\* slice::rotate_right(k) for k <= len
rotate_right(bytes, k) ==
    [i \in 1..Len(bytes) |-> bytes[((i - 1 + Len(bytes) - k) % Len(bytes)) + 1]]

\* Hash::default() with u8::MAX in byte 0, rotated right by each difficulty
\* below 32.
TargetOf ==
    [difficulty \in 0..(HASH_BYTES - 1) |->
        rotate_right([i \in 1..HASH_BYTES |-> IF i = 1 THEN U8_MAX ELSE 0], difficulty)]

\* BlockHeader::difficulty_target: an error for difficulty >= 32, else the
\* all-zero hash with 0xFF in its first byte, rotated right by `difficulty`.
difficulty_target(difficulty) ==
    IF difficulty >= HASH_BYTES THEN [ok |-> FALSE, target |-> <<>>]
    ELSE [ok |-> TRUE, target |-> TargetOf[difficulty]]

RECURSIVE hash_cmp(_, _, _)
\* hash.cmp(target) on byte arrays of one length: the ordering of the first
\* pair of bytes that differ, from index i on.
hash_cmp(a, b, i) ==
    IF i > Len(a) THEN "Equal"
    ELSE IF a[i] < b[i] THEN "Less"
    ELSE IF a[i] > b[i] THEN "Greater"
    ELSE hash_cmp(a, b, i + 1)

\* target_met that takes Ordering::Less only.
target_met_strict(hash, target) == hash_cmp(hash, target, 1) = "Less"

\* BlockHeader::target_met: Ordering::Less | Ordering::Equal
target_met(hash, target) == hash_cmp(hash, target, 1) \in {"Less", "Equal"}

RECURSIVE SearchNonce(_, _, _)
\* The loop of compute_nonce: hash the header bytes with the nonce field
\* replaced, stop when the target is met, else go on with nonce + 1.
SearchNonce(header, target, nonce) ==
    IF target_met(HashBytes([header EXCEPT !.nonce = nonce]), target) THEN nonce
    ELSE SearchNonce(header, target, nonce + 1)

\* compute_nonce whose search starts at nonce 1.
compute_nonce_from_one(header) ==
    LET t == difficulty_target(header.difficulty) IN
    IF ~t.ok THEN [ok |-> FALSE, nonce |-> 0]
    ELSE [ok |-> TRUE, nonce |-> SearchNonce(header, t.target, 1)]

\* BlockHeader::compute_nonce
compute_nonce(header) ==
    LET t == difficulty_target(header.difficulty) IN
    IF ~t.ok THEN [ok |-> FALSE, nonce |-> 0]
    ELSE [ok |-> TRUE, nonce |-> SearchNonce(header, t.target, 0)]

\* A root over the first leaf only.
merkle_root_first_leaf(transactions) ==
    [i \in 1..1 |-> TxId(transactions[i].body)]

\* Transaction::build_merkle_tree(..).root()
merkle_root(transactions) == [i \in 1..Len(transactions) |-> TxId(transactions[i].body)]

\* validate_hash that builds the target and never compares the hash with it.
validate_hash_uncompared(header) ==
    IF header.difficulty >= HASH_BYTES THEN "OutOfBounds" ELSE "ok"

\* BlockHeader::validate_hash: the error of difficulty_target, else whether
\* the hash meets the target ("InvalidProofOfWork" stands for Ok(false)).
validate_hash(header) ==
    LET t == difficulty_target(header.difficulty) IN
    IF ~t.ok THEN "OutOfBounds"
    ELSE IF target_met(HashBytes(header), t.target) THEN "ok"
    ELSE "InvalidProofOfWork"

\* Block::validate without the comparison of the coinbase value with the reward.
BlockValidate_any_reward(block) ==
    LET txs == block.transactions IN
    IF validate_hash(block.header) # "ok" THEN validate_hash(block.header)
    ELSE IF txs = <<>> THEN "InvalidStructure"
    ELSE IF txs[1].body.input # Coinbase(block.height) THEN "InvalidStructure"
    ELSE IF \E i \in 2..Len(txs) : ~verify_signature(txs[i]) THEN "InvalidSignature"
    ELSE IF block.header.merkle_root # merkle_root(txs) THEN "InvalidStructure"
    ELSE "ok"

\* Block::validate (isolated validation)
BlockValidate(block) ==
    LET txs == block.transactions IN
    IF validate_hash(block.header) # "ok" THEN validate_hash(block.header)
    ELSE IF txs = <<>> THEN "InvalidStructure"
    ELSE IF \/ txs[1].body.input # Coinbase(block.height)
            \/ txs[1].body.outputs[1].value # block_reward(block.height)
         THEN "InvalidStructure"
    ELSE IF \E i \in 2..Len(txs) : ~verify_signature(txs[i]) THEN "InvalidSignature"
    ELSE IF block.header.merkle_root # merkle_root(txs) THEN "InvalidStructure"
    ELSE "ok"

\* Block::new with the coinbase behind the input transactions.
BlockNew_coinbase_last(keypair, previous, input_transactions) ==
    LET block_height == previous.height + 1
        reward == block_reward(block_height)
        transactions == input_transactions \o <<new_coinbase(keypair, block_height, reward)>>
    IN  [height |-> block_height,
         header |-> [previous_block_hash |-> HashOf(previous.header),
                     merkle_root |-> merkle_root(transactions),
                     timestamp |-> Now,
                     difficulty |-> previous.header.difficulty,
                     nonce |-> 0],
         transactions |-> transactions]

\* Block::new: the block on top of `previous` that carries a coinbase paying
\* the reward of its height to `keypair`, then the input transactions.
BlockNew(keypair, previous, input_transactions) ==
    LET block_height == previous.height + 1
        reward == block_reward(block_height)
        transactions == <<new_coinbase(keypair, block_height, reward)>> \o input_transactions
    IN  [height |-> block_height,
         header |-> [previous_block_hash |-> HashOf(previous.header),
                     merkle_root |-> merkle_root(transactions),
                     timestamp |-> Now,
                     difficulty |-> previous.header.difficulty,
                     nonce |-> 0],
         transactions |-> transactions]

\* Block::mine: the error of compute_nonce, else the block with the nonce it
\* found in header.nonce.
mine(block) ==
    LET r == compute_nonce(block.header) IN
    IF ~r.ok THEN [ok |-> FALSE, block |-> block]
    ELSE [ok |-> TRUE, block |-> [block EXCEPT !.header.nonce = r.nonce]]

----------------------------------------------------------------------------
(* chain.rs, with the num_bigint::BigUint arithmetic it computes work in *)

----------------------------------------------------------------------------
(* num_bigint::BigUint: a natural number as its base-256 digits, least       *)
(* significant first, without leading zero digits; zero is the empty         *)
(* sequence.                                                                 *)

RECURSIVE BigNorm(_)
\* Drop the zero digits at the top.
BigNorm(a) ==
    IF a = <<>> THEN <<>>
    ELSE IF a[Len(a)] = 0 THEN BigNorm(SubSeq(a, 1, Len(a) - 1))
    ELSE a

\* The digit of weight 256^(i-1), 0 above the top digit.
BigDigit(a, i) == IF i <= Len(a) THEN a[i] ELSE 0

\* BigUint::from_bytes_be
from_bytes_be(bytes) == BigNorm([i \in 1..Len(bytes) |-> bytes[Len(bytes) + 1 - i]])

\* BigUint::one()
BigOne == <<1>>

RECURSIVE BigCmpFrom(_, _, _)
\* The ordering of two numbers of one length, decided from digit i down.
BigCmpFrom(a, b, i) ==
    IF i = 0 THEN "Equal"
    ELSE IF a[i] < b[i] THEN "Less"
    ELSE IF a[i] > b[i] THEN "Greater"
    ELSE BigCmpFrom(a, b, i - 1)

\* Ord for BigUint
BigCmp(a, b) ==
    IF Len(a) < Len(b) THEN "Less"
    ELSE IF Len(a) > Len(b) THEN "Greater"
    ELSE BigCmpFrom(a, b, Len(a))

RECURSIVE BigAddFrom(_, _, _, _)
BigAddFrom(a, b, i, carry) ==
    IF i > Len(a) /\ i > Len(b)
    THEN (IF carry = 0 THEN <<>> ELSE <<carry>>)
    ELSE LET sum == BigDigit(a, i) + BigDigit(b, i) + carry
         IN  <<sum % 256>> \o BigAddFrom(a, b, i + 1, sum \div 256)

\* Add for BigUint
BigAdd(a, b) == BigAddFrom(a, b, 1, 0)

RECURSIVE BigSubFrom(_, _, _, _)
BigSubFrom(a, b, i, borrow) ==
    IF i > Len(a) THEN <<>>
    ELSE LET difference == a[i] - BigDigit(b, i) - borrow
         IN  IF difference < 0
             THEN <<difference + 256>> \o BigSubFrom(a, b, i + 1, 1)
             ELSE <<difference>> \o BigSubFrom(a, b, i + 1, 0)

\* Sub for BigUint, for a >= b
BigSub(a, b) == BigNorm(BigSubFrom(a, b, 1, 0))

RECURSIVE BigMulFrom(_, _, _, _)
BigMulFrom(a, k, i, carry) ==
    IF i > Len(a)
    THEN (IF carry = 0 THEN <<>> ELSE <<carry>>)
    ELSE LET product == a[i] * k + carry
         IN  <<product % 256>> \o BigMulFrom(a, k, i + 1, product \div 256)

\* The product with a single digit.
BigMulDigit(a, k) == BigNorm(BigMulFrom(a, k, 1, 0))

\* A digit that is not below the quotient of a by b, for a < 256 * b: the
\* quotient of the top digits of a by the top digit of b.
QuotientGuess(a, b) ==
    LET top == BigDigit(a, Len(b) + 1) * 256 + BigDigit(a, Len(b))
        guess == top \div b[Len(b)]
    IN  IF guess > U8_MAX THEN U8_MAX ELSE guess

RECURSIVE QuotientDigit(_, _, _)
\* The largest digit k <= guess with k * b <= a.
QuotientDigit(a, b, guess) ==
    IF guess = 0 THEN 0
    ELSE IF BigCmp(BigMulDigit(b, guess), a) = "Greater" THEN QuotientDigit(a, b, guess - 1)
    ELSE guess

RECURSIVE BigDivFrom(_, _, _)
\* Long division: `done` holds the number of digits of a still to bring
\* down, the quotient digits found for the digits above them, and the
\* remainder those left.
BigDivFrom(a, b, done) ==
    IF done.i = 0 THEN done.quotient
    ELSE LET current == BigNorm(<<a[done.i]>> \o done.remainder)
             digit == QuotientDigit(current, b, QuotientGuess(current, b))
         IN  BigDivFrom(a, b, [i |-> done.i - 1,
                               quotient |-> <<digit>> \o done.quotient,
                               remainder |-> IF digit = 0 THEN current
                                             ELSE BigSub(current, BigMulDigit(b, digit))])

\* Div for BigUint (floor), for b > 0
BigDiv(a, b) ==
    BigNorm(BigDivFrom(a, b, [i |-> Len(a), quotient |-> <<>>, remainder |-> <<>>]))

\* BigUint::from(2u32).pow(256u32) - BigUint::one()
max_target ==
    BigSub([i \in 1..(HASH_BYTES + 1) |-> IF i = HASH_BYTES + 1 THEN 1 ELSE 0], BigOne)

\* calculate_work that leaves the work of the predecessor out.
calculate_work_alone(difficulty, previous_work) ==
    LET t == difficulty_target(difficulty) IN
    IF ~t.ok THEN [ok |-> FALSE, work |-> <<>>]
    ELSE LET target == from_bytes_be(t.target)
         IN  [ok |-> TRUE,
              work |-> BigAdd(BigDiv(BigSub(max_target, target), BigAdd(target, BigOne)),
                              BigOne)]

\* BlockchainNode::calculate_work for a header of this difficulty and a
\* predecessor of this work (zero without predecessor): the error of
\* difficulty_target, else previous_work + block_work with
\* block_work = (max_target - target) / (target + 1) + 1.
calculate_work(difficulty, previous_work) ==
    LET t == difficulty_target(difficulty) IN
    IF ~t.ok THEN [ok |-> FALSE, work |-> <<>>]
    ELSE LET target == from_bytes_be(t.target)
             big_block_work ==
                 BigAdd(BigDiv(BigSub(max_target, target), BigAdd(target, BigOne)), BigOne)
         IN  [ok |-> TRUE, work |-> BigAdd(previous_work, big_block_work)]

\* The work of one block of each difficulty below 32.
BlockWorkOf == [difficulty \in 0..(HASH_BYTES - 1) |-> calculate_work(difficulty, <<>>).work]

\* BlockchainNode::calculate_work, per-block part:
\*   floor((2^256 - 1 - target) / (target + 1)) + 1 = floor(2^256 / (target + 1))
\* with target = 255 * 256^(31 - d).  For d <= 15 this is (256^(d+1) - 1) / 255
\* (256^(d+1) = 255 q + 1 and q <= 256^(31-d)), which fits the checker's integers
\* for the difficulties of the modelled headers.
block_work(difficulty) == (256 ^ (difficulty + 1) - 1) \div 255

\* BlockchainNode::new followed by set_previous(previous): `previous` is the
\* handle of the predecessor node or NoNode.
NewNode(block, previous, allNodes) ==
    [height |-> block.height, header |-> block.header,
     work |-> (IF previous = NoNode THEN 0 ELSE allNodes[previous].work)
              + block_work(block.header.difficulty),
     previous |-> previous]

MaxOf(S) == CHOOSE x \in S : \A y \in S : y <= x

\* Blockchain::tail: the node at the largest height, NoNode's stand-in when empty.
HasTail(c) == DOMAIN c # {}

tail(c) == c[MaxOf(DOMAIN c)]

\* Blockchain::chain_work().unwrap_or_default()
chain_work(c) == IF HasTail(c) THEN tail(c).work ELSE 0

\* Blockchain::height
height(c) == IF HasTail(c) THEN MaxOf(DOMAIN c) ELSE 0

\* Blockchain::contains_node: the entry at the node's height is that very node.
contains_node(c, node) == node.height \in DOMAIN c /\ c[node.height] = node

\* A chain node of a Blockchain that stands alone, as build and append_block
\* make it: BlockchainNode::new followed by set_previous, `previous` being
\* <<>> for None and <<node>> for Some(node).
ChainNode(block, previous) ==
    [height |-> block.height, header |-> block.header,
     work |-> (IF previous = <<>> THEN 0 ELSE previous[1].work)
              + block_work(block.header.difficulty),
     previous |-> previous]

\* Blockchain::contains_block: the entry at the block's height has its hash.
chain_contains_block(c, block) ==
    block.height \in DOMAIN c /\ HashOf(c[block.height].header) = HashOf(block.header)

\* Blockchain::append_block: Ok without change for a block the chain has at
\* its height; an error for a block that does not name the tail as its
\* predecessor or is not one above it, or whose work cannot be calculated;
\* else the block's node, linked to the tail, enters at the block's height.
append_block(c, block) ==
    IF chain_contains_block(c, block) THEN [ok |-> TRUE, chain |-> c]
    ELSE IF HasTail(c) /\ HashOf(tail(c).header) # block.header.previous_block_hash
    THEN [ok |-> FALSE, chain |-> c]
    ELSE IF HasTail(c) /\ tail(c).height + 1 # block.height
    THEN [ok |-> FALSE, chain |-> c]
    ELSE IF ~difficulty_target(block.header.difficulty).ok
    THEN [ok |-> FALSE, chain |-> c]
    ELSE [ok |-> TRUE,
          chain |-> (block.height :> ChainNode(block, IF HasTail(c) THEN <<tail(c)>> ELSE <<>>))
                        @@ c]

RECURSIVE AppendAll(_, _)
\* append_block for every block of a sequence in turn, whatever each call
\* returns.
AppendAll(c, sequence) ==
    IF sequence = <<>> THEN c
    ELSE AppendAll(append_block(c, Head(sequence)).chain, Tail(sequence))

RECURSIVE find_fork(_, _, _)
\* Blockchain::find_fork: the first of the node and its ancestors, walking
\* back along `previous`, that the chain contains; NoNode for None.
find_fork(c, handle, allNodes) ==
    IF handle = NoNode THEN NoNode
    ELSE IF contains_node(c, allNodes[handle]) THEN handle
    ELSE find_fork(c, allNodes[handle].previous, allNodes)

RECURSIVE WalkBack(_, _, _)
\* set_tail step 2: insert the node and its ancestors, keyed by height, until
\* one of them is already on the chain.
WalkBack(c, handle, allNodes) ==
    IF handle = NoNode THEN c
    ELSE LET node == allNodes[handle] IN
         IF contains_node(c, node) THEN c
         ELSE WalkBack((node.height :> node) @@ c, node.previous, allNodes)

\* Blockchain::set_tail: drop the entries at or above the node's height, then
\* walk back from the node.
set_tail(c, handle, allNodes) ==
    LET node == allNodes[handle]
        kept == [h \in {x \in DOMAIN c : x < node.height} |-> c[h]]
    IN  WalkBack(kept, handle, allNodes)

----------------------------------------------------------------------------
(* block_manager.rs *)

MapInsert(m, k, v) == (k :> v) @@ m

\* contains_block with the lookup lost: no block is ever found stored.
contains_block_lost(blockMap, hash) == FALSE

\* BlockManager::contains_block
contains_block(blockMap, hash) == hash \in DOMAIN blockMap

\* add_block_internal that keeps the connected block as the only entry of
\* `blocks`.
add_block_internal_evicting(blockMap, nodeMap, orphanMap, block) ==
    LET hash == HashOf(block.header)
        prev == block.header.previous_block_hash
        previous_node == IF prev \in DOMAIN nodeMap THEN prev ELSE NoNode
    IN  IF previous_node = NoNode /\ block.height > 1
        THEN [added |-> FALSE, node |-> NoNode, blocks |-> blockMap, nodes |-> nodeMap,
              orphan_blocks |-> MapInsert(orphanMap, hash, block)]
        ELSE [added |-> TRUE, node |-> hash,
              blocks |-> (hash :> block),
              nodes |-> MapInsert(nodeMap, hash, NewNode(block, previous_node, nodeMap)),
              orphan_blocks |-> orphanMap]

\* add_block_internal without the height test: every block whose predecessor
\* has no chain node goes to the orphans.
add_block_internal_no_genesis(blockMap, nodeMap, orphanMap, block) ==
    LET hash == HashOf(block.header)
        prev == block.header.previous_block_hash
    IN  IF prev \notin DOMAIN nodeMap
        THEN [added |-> FALSE, node |-> NoNode, blocks |-> blockMap, nodes |-> nodeMap,
              orphan_blocks |-> MapInsert(orphanMap, hash, block)]
        ELSE [added |-> TRUE, node |-> hash,
              blocks |-> MapInsert(blockMap, hash, block),
              nodes |-> MapInsert(nodeMap, hash, NewNode(block, prev, nodeMap)),
              orphan_blocks |-> orphanMap]

\* BlockManager::add_block_internal: a block whose predecessor has no chain
\* node and whose height is above 1 goes to the orphans; any other block gets
\* a chain node and enters `nodes` and `blocks`.  Persisting the block to disk
\* is taken to succeed.
add_block_internal(blockMap, nodeMap, orphanMap, block) ==
    LET hash == HashOf(block.header)
        prev == block.header.previous_block_hash
        previous_node == IF prev \in DOMAIN nodeMap THEN prev ELSE NoNode
    IN  IF previous_node = NoNode /\ block.height > 1
        THEN [added |-> FALSE, node |-> NoNode, blocks |-> blockMap, nodes |-> nodeMap,
              orphan_blocks |-> MapInsert(orphanMap, hash, block)]
        ELSE [added |-> TRUE, node |-> hash,
              blocks |-> MapInsert(blockMap, hash, block),
              nodes |-> MapInsert(nodeMap, hash, NewNode(block, previous_node, nodeMap)),
              orphan_blocks |-> orphanMap]

----------------------------------------------------------------------------
(* node.rs *)

RECURSIVE SortedHeights(_)
\* BTreeMap iteration order: ascending keys.
SortedHeights(S) ==
    IF S = {} THEN <<>>
    ELSE LET lo == CHOOSE x \in S : \A y \in S : x <= y
         IN  <<lo>> \o SortedHeights(S \ {lo})

RECURSIVE ChainTransactions(_, _, _)
\* The transactions build_utxo_set visits: for every chain node in height
\* order, those of its block when the block manager has it.
ChainTransactions(c, blockMap, heights) ==
    IF heights = <<>> THEN <<>>
    ELSE LET hash == HashOf(c[Head(heights)].header)
             txs == IF hash \in DOMAIN blockMap THEN blockMap[hash].transactions ELSE <<>>
         IN  txs \o ChainTransactions(c, blockMap, Tail(heights))

\* NodeState::build_utxo_set: start from the empty set and apply every visited
\* transaction; the first failing update returns the error and leaves the set
\* as built so far.
build_utxo_set(c, blockMap) ==
    ApplyAll(EmptyMap, ChainTransactions(c, blockMap, SortedHeights(DOMAIN c)))

\* The comparison that lets every connected node become the tail.
Retargets_always(node_work, c) == TRUE

\* The comparison with > in place of >=.
Retargets_strict(node_work, c) == node_work > chain_work(c)

\* The comparison of NodeState::add_block that decides whether the new node
\* becomes the tail.
Retargets(node_work, c) == node_work >= chain_work(c)

\* node.work.cmp(&chain_work): recorded with the outcome of an ingestion.
WorkOrdering(node_work, c) ==
    IF node_work < chain_work(c) THEN "lt"
    ELSE IF node_work = chain_work(c) THEN "eq" ELSE "gt"

\* The NodeState fields of a state record.
Fields(s) ==
    [blocks |-> s.blocks, nodes |-> s.nodes, orphan_blocks |-> s.orphan_blocks,
     chain |-> s.chain, utxo_set |-> s.utxo_set, mem_pool |-> s.mem_pool]

\* NodeState::add_block on the NodeState s: the NodeState after the call, the
\* result returned and the path taken through the function.
add_block(s, block) ==
    LET hash == HashOf(block.header)
        Outcome(result, route, cmp) == [result |-> result, route |-> route, cmp |-> cmp]
    IN  IF contains_block(s.blocks, hash)
        THEN Fields(s) @@ Outcome("ok", "contained", "none")
        ELSE IF BlockValidate(block) # "ok"
        THEN Fields(s) @@ Outcome("err", BlockValidate(block), "none")
        ELSE LET r == add_block_internal(s.blocks, s.nodes, s.orphan_blocks, block)
                 stored == [blocks |-> r.blocks, nodes |-> r.nodes,
                            orphan_blocks |-> r.orphan_blocks, mem_pool |-> s.mem_pool]
             IN  IF ~r.added
                 THEN stored @@ [chain |-> s.chain, utxo_set |-> s.utxo_set]
                             @@ Outcome("ok", "orphaned", "none")
                 ELSE LET work == r.nodes[r.node].work
                          cmp == WorkOrdering(work, s.chain)
                      IN  IF ~Retargets(work, s.chain)
                          THEN stored @@ [chain |-> s.chain, utxo_set |-> s.utxo_set]
                                      @@ Outcome("ok", "lighter", cmp)
                          ELSE LET newChain == set_tail(s.chain, r.node, r.nodes)
                                   rebuilt == build_utxo_set(newChain, r.blocks)
                               IN  stored
                                   @@ [chain |-> newChain, utxo_set |-> rebuilt.outputs]
                                   @@ IF rebuilt.ok
                                      THEN Outcome("ok", "retargeted", cmp)
                                      ELSE Outcome("err", "rebuild_failed", cmp)

\* add_transaction with the projection made on the UTXO set itself, not on a
\* clone of it.
add_transaction_in_place(s, transaction) ==
    LET r == MemPoolAdd(s.mem_pool, s.utxo_set, transaction)
        pending_utxo_set == ApplyAll(s.utxo_set, s.mem_pool)
    IN  [Fields(s) EXCEPT !.mem_pool = r.pending, !.utxo_set = pending_utxo_set.outputs]
            @@ [result |-> IF r.result = "ok" THEN "ok" ELSE "err",
                route |-> r.result, cmp |-> "none"]

\* NodeState::add_transaction on the NodeState s.
add_transaction(s, transaction) ==
    LET r == MemPoolAdd(s.mem_pool, s.utxo_set, transaction) IN
    [Fields(s) EXCEPT !.mem_pool = r.pending]
        @@ [result |-> IF r.result = "ok" THEN "ok" ELSE "err",
            route |-> r.result, cmp |-> "none"]

\* NodeState::default()
DefaultState ==
    [blocks |-> EmptyMap, nodes |-> EmptyMap, orphan_blocks |-> EmptyMap,
     chain |-> EmptyMap, utxo_set |-> EmptyMap, mem_pool |-> <<>>]

RECURSIVE IngestAll(_, _)
\* handle_message(Message::NewBlock(block)) for every block of a sequence in
\* turn, whatever each call returns.
IngestAll(s, sequence) ==
    IF sequence = <<>> THEN s
    ELSE IngestAll(Fields(add_block(s, Head(sequence))), Tail(sequence))

\* Node::into_block on the NodeState s: the mempool is drained first, then the
\* block is made and mined; an error of either leaves the mempool drained.
into_block(s, keypair, previous_block) ==
    LET transactions == s.mem_pool
        mined == mine(BlockNew(keypair, previous_block, transactions))
    IN  [result |-> IF mined.ok THEN "ok" ELSE "err",
         mem_pool |-> <<>>,
         block |-> mined.block]

----------------------------------------------------------------------------
(* The messages the network can deliver *)

Tx(id, key) == into_tx(TxBodies[id], key)

\* A transaction whose signature was made over another body.
Forged(id, key, signedId) ==
    [body |-> TxBodies[id],
     signing_info |-> [public_key |-> key, signature |-> Sign(key, TxBodies[signedId])]]

Block(h, hash, transactions) ==
    [height |-> h, header |-> Headers[hash], transactions |-> transactions]

BlockUniverse == {
    Block(1, 1, <<Tx(1, "bob")>>),
    Block(2, 2, <<Tx(2, "bob"), Tx(5, "bob")>>),
    Block(2, 3, <<Tx(3, "alice")>>),
    Block(3, 4, <<Tx(4, "alice"), Tx(6, "bob")>>),
    Block(3, 5, <<Tx(4, "alice"), Tx(5, "bob")>>),
    Block(1, 6, <<Tx(1, "bob")>>),
    Block(2, 7, <<Tx(2, "bob")>>) }

\* Blocks that break one rule of Block::validate each.
InvalidBlocks == {
    Block(2, 8, <<Tx(2, "bob"), Tx(5, "bob")>>),
    Block(2, 9, <<Tx(2, "bob"), Forged(6, "bob", 5)>>),
    Block(2, 10, <<Tx(7, "carol")>>),
    Block(2, 11, <<Tx(8, "carol")>>),
    Block(2, 12, <<Tx(5, "bob"), Tx(2, "bob")>>) }

\* Blocks that pass Block::validate and declare another height than their
\* predecessor's plus one.
SkewedBlocks == {
    Block(3, 13, <<Tx(4, "alice")>>) }

\* A block that passes Block::validate and declares a height below its
\* predecessor's.
DescendingBlocks == {
    Block(2, 15, <<Tx(2, "bob")>>) }

TxUniverse == {
    Tx(1, "bob"),
    Tx(5, "bob"),
    Tx(6, "bob"),
    Forged(6, "bob", 5) }

----------------------------------------------------------------------------
(* The state machine: Node::handle_message *)

\* The current NodeState.
State ==
    [blocks |-> blocks, nodes |-> nodes, orphan_blocks |-> orphan_blocks,
     chain |-> chain, utxo_set |-> utxo_set, mem_pool |-> mem_pool]

\* NodeState::default()
InitNode ==
    /\ blocks = EmptyMap
    /\ nodes = EmptyMap
    /\ orphan_blocks = EmptyMap
    /\ chain = EmptyMap
    /\ utxo_set = EmptyMap
    /\ mem_pool = <<>>
    /\ last = [op |-> "new", result |-> "ok", route |-> "new", cmp |-> "none"]
    /\ state_transactions = EmptyMap
    /\ state_uxto_set = {}
    /\ built = <<>>

\* The node after Node::new, the TransactionState after default(), no pure
\* function called.
Init ==
    /\ InitNode
    /\ call = [op |-> "none", done |-> TRUE]

\* The state after a handler returned r.
Becomes(r, op) ==
    /\ blocks' = r.blocks
    /\ nodes' = r.nodes
    /\ orphan_blocks' = r.orphan_blocks
    /\ chain' = r.chain
    /\ utxo_set' = r.utxo_set
    /\ mem_pool' = r.mem_pool
    /\ last' = [op |-> op, result |-> r.result, route |-> r.route, cmp |-> r.cmp]
    /\ UNCHANGED <<state_transactions, state_uxto_set, built, call>>

\* Message::NewBlock(block)
NewBlock(block) == Becomes(add_block(State, block), "NewBlock")

\* Message::NewTransaction(transaction)
NewTransaction(transaction) == Becomes(add_transaction(State, transaction), "NewTransaction")

Next ==
    \/ \E block \in BlockUniverse : NewBlock(block)
    \/ \E transaction \in TxUniverse : NewTransaction(transaction)

Spec == Init /\ [][Next]_vars

\* The transactions handed to a TransactionState.
StateTxUniverse == {
    Tx(1, "bob"), Tx(2, "bob"), Tx(3, "alice"), Tx(4, "alice"),
    Tx(5, "bob"), Tx(6, "bob"), Tx(6, "alice"), Forged(6, "bob", 5),
    Tx(9, "alice"), Tx(9, "bob"), Unsigned(TxBodies[2]) }

\* state.add_transaction(transaction) on a TransactionState
StateAddTransaction(transaction) ==
    LET r == TransactionState_add_transaction(state_transactions, state_uxto_set, transaction)
    IN
    /\ state_transactions' = r.transactions
    /\ state_uxto_set' = r.uxto_set
    /\ last' = [op |-> "TransactionState", result |-> IF r.result = "ok" THEN "ok" ELSE "err",
                route |-> r.result, cmp |-> "none"]
    /\ UNCHANGED <<blocks, nodes, orphan_blocks, chain, utxo_set, mem_pool, built, call>>

NextState == \E transaction \in StateTxUniverse : StateAddTransaction(transaction)

\* A TransactionState::default() fed with transactions.
TxStateSpec == Init /\ [][NextState]_vars

\* The node fed with blocks only, well formed or not.
NextBlock ==
    \E block \in BlockUniverse \cup InvalidBlocks \cup SkewedBlocks : NewBlock(block)

BlockSpec == Init /\ [][NextBlock]_vars

\* The blocks and transactions other nodes send to the node that builds.
MinerBlockUniverse == {Block(1, 1, <<Tx(1, "bob")>>)}

MinerTxUniverse == {
    Tx(1, "bob"),
    Tx(5, "bob") }

\* The blocks the block manager holds.
StoredBlocks == {blocks[hash] : hash \in DOMAIN blocks}

\* A previous block handed to into_block whose header carries a difficulty
\* that difficulty_target refuses.
UnminableBlocks == {
    [height |-> 1, header |-> Header(ZeroHash, <<1>>, HASH_BYTES, 11),
     transactions |-> <<Tx(1, "bob")>>] }

\* The blocks into_block returned so far.
BuiltBlocks == {built[i] : i \in 1..Len(built)}

\* node.into_block(&previous_block): the block is kept for delivery.
IntoBlock(previous_block) ==
    LET r == into_block(State, NodeKeypair, previous_block) IN
    /\ Len(built) < MaxBuilt
    /\ mem_pool' = r.mem_pool
    /\ built' = IF r.result = "ok" /\ r.block \notin BuiltBlocks
                THEN Append(built, r.block) ELSE built
    /\ last' = [op |-> "IntoBlock", result |-> r.result, route |-> "built", cmp |-> "none"]
    /\ UNCHANGED <<blocks, nodes, orphan_blocks, chain, utxo_set,
                   state_transactions, state_uxto_set, call>>

NextMiner ==
    \/ \E block \in MinerBlockUniverse \cup BuiltBlocks : NewBlock(block)
    \/ \E transaction \in MinerTxUniverse : NewTransaction(transaction)
    \/ \E previous_block \in StoredBlocks \cup UnminableBlocks : IntoBlock(previous_block)

\* The node that receives blocks and transactions and builds blocks.
MinerSpec == Init /\ [][NextMiner]_vars

\* The blocks and transactions sent to a node whose mempool fills up.
PoolBlockUniverse == {
    Block(1, 1, <<Tx(1, "bob")>>),
    Block(2, 2, <<Tx(2, "bob"), Tx(5, "bob")>>) }

PoolTxUniverse == {
    Tx(1, "bob"),
    Tx(5, "bob"),
    Tx(6, "bob"),
    Tx(9, "alice"),
    Tx(9, "bob") }

NextPool ==
    \/ \E block \in PoolBlockUniverse : NewBlock(block)
    \/ \E transaction \in PoolTxUniverse : NewTransaction(transaction)

\* The node under transactions that spend outputs of pending transactions.
PoolSpec == Init /\ [][NextPool]_vars

\* Blocks that pass Block::validate and hold a transaction that
\* validate_transaction refuses against the set of their predecessor: one
\* signed by another key than the owner's, one creating twice the value spent.
MisspendingBlocks == {
    Block(2, 9, <<Tx(2, "bob"), Tx(6, "alice")>>),
    Block(2, 14, <<Tx(2, "bob"), Tx(13, "bob")>>) }

ValueBlockUniverse == {
    Block(1, 1, <<Tx(1, "bob")>>),
    Block(2, 2, <<Tx(2, "bob"), Tx(5, "bob")>>),
    Block(2, 3, <<Tx(3, "alice")>>),
    Block(3, 4, <<Tx(4, "alice"), Tx(6, "bob")>>) }

ValueTxUniverse == {
    Tx(5, "bob"),
    Tx(6, "bob") }

NextValue ==
    \/ \E block \in ValueBlockUniverse \cup MisspendingBlocks : NewBlock(block)
    \/ \E transaction \in ValueTxUniverse : NewTransaction(transaction)

\* The node under blocks whose transactions were never in a mempool.
ValueSpec == Init /\ [][NextValue]_vars

\* The hashes target_met is called with: every number of leading zero bytes,
\* followed by a byte at, just below or far below 0xFF and a tail of zeros,
\* ones or 0xFF.
HashSamples ==
    {Bytes32(zeros, lead, fill) :
        zeros \in 0..(HASH_BYTES - 1), lead \in {0, 1, U8_MAX - 1, U8_MAX},
        fill \in {0, 1, U8_MAX}}

\* The blocks mine is called with: Block::new left nonce 0 in the header.
MineInputs ==
    {[height |-> 2,
      header |-> [previous_block_hash |-> previous, merkle_root |-> merkle_root(txs),
                  timestamp |-> Now, difficulty |-> difficulty, nonce |-> 0],
      transactions |-> txs] :
        previous \in 1..Len(Headers),
        difficulty \in 0..MaxMinedDifficulty \cup {HASH_BYTES, U8_MAX},
        txs \in {<<Tx(3, "alice")>>, <<Tx(3, "alice"), Tx(5, "bob")>>}}

\* The blocks two nodes receive in different orders.
OrderBlockUniverse == {
    Block(1, 1, <<Tx(1, "bob")>>),
    Block(2, 2, <<Tx(2, "bob"), Tx(5, "bob")>>),
    Block(2, 3, <<Tx(3, "alice")>>),
    Block(3, 4, <<Tx(4, "alice"), Tx(6, "bob")>>) }

\* The orders of arrival: sequences of up to MaxOrder different blocks.
Orders ==
    {order \in UNION {[1..n -> OrderBlockUniverse] : n \in 1..MaxOrder} :
        \A i, j \in 1..Len(order) : order[i] = order[j] => i = j}

\* The cumulative work of the predecessor calculate_work is called with:
\* none, one block of the least or of the greatest difficulty, and 2^256 - 1.
WorkSamples == {<<>>, BlockWorkOf[0], BlockWorkOf[HASH_BYTES - 1], max_target}

\* The blocks a node has ingested when find_fork is called.
ForkBlockUniverse == OrderBlockUniverse \cup SkewedBlocks \cup DescendingBlocks

\* The orders in which they arrived.
ForkOrders ==
    {order \in UNION {[1..n -> ForkBlockUniverse] : n \in 1..MaxOrder} :
        \A i, j \in 1..Len(order) : order[i] = order[j] => i = j}

\* The transactions sign and output_reference are called with.
SignInputs ==
    {Unsigned(TxBodies[i]) : i \in 1..Len(TxBodies)}
        \cup {Tx(i, key) : i \in 1..Len(TxBodies), key \in KeyPairs}

\* A pure function is called with the arguments `call` holds; `call` then
\* records the result along with them.
Called(record) ==
    /\ ~call.done
    /\ call' = [call EXCEPT !.done = TRUE] @@ record
    /\ UNCHANGED <<blocks, nodes, orphan_blocks, chain, utxo_set, mem_pool, last,
                   state_transactions, state_uxto_set, built>>

CallBlockReward ==
    /\ call.op = "block_reward"
    /\ Called([aborted |-> block_reward_aborts(call.height),
               value |-> block_reward(call.height)])

CallDifficultyTarget ==
    /\ call.op = "difficulty_target"
    /\ Called([result |-> difficulty_target(call.difficulty)])

CallTargetMet ==
    /\ call.op = "target_met"
    /\ Called([result |-> target_met(call.hash, call.target)])

CallMine ==
    /\ call.op = "mine"
    /\ Called([result |-> mine(call.block)])

CallSign ==
    /\ call.op = "sign"
    /\ Called([result |-> Transaction_sign(call.tx, call.key),
               id_before |-> Transaction_id(call.tx),
               id_after |-> Transaction_id(Transaction_sign(call.tx, call.key))])

CallOutputReference ==
    /\ call.op = "output_reference"
    /\ Called([result |-> output_reference(call.tx, call.index)])

\* Two fresh nodes ingest the same blocks, each in its own order.
CallIngestOrders ==
    /\ call.op = "ingest_orders"
    /\ Called([left |-> IngestAll(DefaultState, call.first),
               right |-> IngestAll(DefaultState, call.second)])

CallCalculateWork ==
    /\ call.op = "calculate_work"
    /\ Called([result |-> calculate_work(call.difficulty, call.previous_work)])

\* A chain made by appending the blocks of `first` in turn has `block`
\* appended.
CallAppendBlock ==
    /\ call.op = "append_block"
    /\ LET before == AppendAll(EmptyMap, call.first)
       IN  Called([before |-> before, result |-> append_block(before, call.block)])

\* find_fork is called on the chain a node had after the first `seen` blocks
\* of an order, with the chain node it holds of one of the blocks after all
\* of them.
CallFindFork ==
    /\ call.op = "find_fork"
    /\ LET s == IngestAll(DefaultState, call.first)
           c == IngestAll(DefaultState, SubSeq(call.first, 1, call.seen)).chain
           node == HashOf(call.first[call.index].header)
       IN  /\ node \in DOMAIN s.nodes
           /\ Called([chain |-> c, nodes |-> s.nodes, node |-> node,
                      result |-> find_fork(c, node, s.nodes)])

\* The arguments of one call, drawn from bounded sets.
InitFunction ==
    /\ InitNode
    /\ \/ \E h \in 0..MaxHeight : call = [op |-> "block_reward", done |-> FALSE, height |-> h]
       \/ \E difficulty \in 0..U8_MAX :
             call = [op |-> "difficulty_target", done |-> FALSE, difficulty |-> difficulty]
       \/ \E hash \in HashSamples, difficulty \in 0..(HASH_BYTES - 1) :
             call = [op |-> "target_met", done |-> FALSE, hash |-> hash,
                     target |-> difficulty_target(difficulty).target]
       \/ \E block \in MineInputs : call = [op |-> "mine", done |-> FALSE, block |-> block]
       \/ \E tx \in SignInputs, key \in KeyPairs :
             call = [op |-> "sign", done |-> FALSE, tx |-> tx, key |-> key]
       \/ \E tx \in SignInputs, index \in 0..MaxIndex :
             call = [op |-> "output_reference", done |-> FALSE, tx |-> tx, index |-> index]
       \/ \E first \in Orders, second \in Orders :
             /\ {first[i] : i \in 1..Len(first)} = {second[i] : i \in 1..Len(second)}
             /\ call = [op |-> "ingest_orders", done |-> FALSE,
                        first |-> first, second |-> second]
       \/ \E difficulty \in 0..U8_MAX, previous_work \in WorkSamples :
             call = [op |-> "calculate_work", done |-> FALSE,
                     difficulty |-> difficulty, previous_work |-> previous_work]
       \/ \E first \in Orders, block \in OrderBlockUniverse :
             call = [op |-> "append_block", done |-> FALSE, first |-> first, block |-> block]
       \/ \E first \in ForkOrders :
             \E seen \in 0..Len(first), index \in 1..Len(first) :
                call = [op |-> "find_fork", done |-> FALSE,
                        first |-> first, seen |-> seen, index |-> index]

NextFunction ==
    \/ CallBlockReward
    \/ CallDifficultyTarget
    \/ CallTargetMet
    \/ CallMine
    \/ CallSign
    \/ CallOutputReference
    \/ CallIngestOrders
    \/ CallCalculateWork
    \/ CallAppendBlock
    \/ CallFindFork

\* The pure functions called on inputs drawn from bounded sets.
FunctionSpec == InitFunction /\ [][NextFunction]_vars

----------------------------------------------------------------------------
(* Vocabulary of the properties *)

\* The block with this hash has an entry in the chain index.
OnBestChain(c, hash) == \E h \in DOMAIN c : HashOf(c[h].header) = hash

\* The transactions of the best chain, in height order and block order.
BestChainTransactions == ChainTransactions(chain, blocks, SortedHeights(DOMAIN chain))

RECURSIVE Ancestry(_, _)
\* The handles of a node and of all its ancestors.
Ancestry(handle, nodeMap) ==
    IF handle = NoNode THEN {}
    ELSE {handle} \cup Ancestry(nodeMap[handle].previous, nodeMap)

\* The chain index c ends at node n and holds exactly the ancestry of n, every
\* node under its own height.
IsAncestryOf(c, n, nodeMap) ==
    /\ HasTail(c)
    /\ tail(c) = nodeMap[n]
    /\ MaxOf(DOMAIN c) = nodeMap[n].height
    /\ \A h \in DOMAIN c : c[h].height = h /\ c[h] \in {nodeMap[a] : a \in Ancestry(n, nodeMap)}
    /\ \A a \in Ancestry(n, nodeMap) : contains_node(c, nodeMap[a])

\* The step ingested a block and connected it as a new chain node.
Connected(n) == n \in DOMAIN nodes' /\ n \notin DOMAIN nodes

\* Some best-chain transaction spends the output reference r.
SpentOnBestChain(r) ==
    \E i \in 1..Len(BestChainTransactions) :
        LET input == BestChainTransactions[i].body.input IN
        input.type = "Reference" /\ input.reference = r

----------------------------------------------------------------------------
(* Properties *)

\* C1: an ingestion that returns an error leaves the chain index, the UTXO
\* set and the mempool as they were before the call (the previous best chain
\* and UTXO set are restored when the rebuild fails after set_tail).
C1_FailedIngestLeavesStateUnchanged ==
    [][last'.result = "err"
         => chain' = chain /\ utxo_set' = utxo_set /\ mem_pool' = mem_pool]_vars

\* C2: the cumulative work of the best-chain tip is at least the cumulative
\* work of every chain node held by the block manager.
C2_TipHasMostWork == \A n \in DOMAIN nodes : chain_work(chain) >= nodes[n].work

\* C3: every reference of the UTXO set was created by a best-chain transaction
\* that no later best-chain transaction spends, and the UTXO set is the replay
\* of the best chain from the empty set.
C3_UtxoIsBestChainReplay ==
    /\ \A r \in DOMAIN utxo_set :
         \E i \in 1..Len(BestChainTransactions) :
            /\ TxId(BestChainTransactions[i].body) = r.id
            /\ r.index < Len(BestChainTransactions[i].body.outputs)
            /\ \A j \in (i + 1)..Len(BestChainTransactions) :
                  BestChainTransactions[j].body.input # Reference(r.id, r.index)
    /\ build_utxo_set(chain, blocks).ok
    /\ build_utxo_set(chain, blocks).outputs = utxo_set

\* C4: after the chain was redirected to a newly connected node n, the tip is
\* n, every entry up to n's height is the ancestor of n at that height and no
\* entry above n's height remains.
C4_RedirectedChainIsAncestry ==
    [][last'.route \in {"retargeted", "rebuild_failed"}
         => \E n \in DOMAIN nodes' : Connected(n) /\ IsAncestryOf(chain', n, nodes')]_vars

\* C5: after an ingestion completes, no orphan has its predecessor among the
\* chain nodes (orphans are re-inserted when their predecessor connects).
C5_NoOrphanWithKnownPredecessor ==
    \A h \in DOMAIN orphan_blocks :
        orphan_blocks[h].header.previous_block_hash \notin DOMAIN nodes

\* C6: ingesting a block a second time, right after an ingestion that stored
\* it (connected or orphaned) or found it stored, returns success and leaves
\* block store, orphans, chain index, UTXO set and mempool unchanged.
C6_SecondIngestIsNoOp ==
    \A block \in BlockUniverse :
        LET first == add_block(State, block)
            second == add_block(first, block)
        IN  first.route \in {"contained", "orphaned", "lighter", "retargeted", "rebuild_failed"}
                => second.result = "ok" /\ Fields(second) = Fields(first)

\* C6 witness: a stored block was ingested again while orphans are held and a
\* best chain exists.
C6_Witness ==
    /\ last.op = "NewBlock" /\ last.route = "contained" /\ last.result = "ok"
    /\ DOMAIN orphan_blocks # {}
    /\ HasTail(chain)

\* C7 (as claimed): a newly connected node whose cumulative work equals the
\* tip's leaves the chain index and the UTXO set unchanged.
C7_TieKeepsIncumbent ==
    [][(last'.op = "NewBlock" /\ last'.cmp = "eq")
         => chain' = chain /\ utxo_set' = utxo_set]_vars

\* C7 (amended): a newly connected node whose cumulative work equals the tip's
\* is preferred: the chain is redirected to it, the incumbent tip is no longer
\* the tip and the UTXO set is rebuilt over the redirected chain.
C7_TiePrefersNewcomer ==
    [][(last'.op = "NewBlock" /\ last'.cmp = "eq")
         => /\ last'.route \in {"retargeted", "rebuild_failed"}
            /\ HasTail(chain') /\ tail(chain') # tail(chain)
            /\ \E n \in DOMAIN nodes' : Connected(n) /\ chain' = set_tail(chain, n, nodes')
            /\ utxo_set' = build_utxo_set(chain', blocks').outputs]_vars

\* C7 witness: the last ingestion connected a node of equal work and the
\* chain was redirected to it.
C7_Witness ==
    /\ last.op = "NewBlock" /\ last.cmp = "eq" /\ last.route = "retargeted"
    /\ \E n \in DOMAIN nodes : tail(chain) = nodes[n]
    /\ \E m \in DOMAIN nodes : nodes[m] # tail(chain) /\ nodes[m].work = chain_work(chain)

\* C8: a block that passes isolated validation and fails the UTXO rebuild is
\* in the block store afterwards and not on the best chain: the chain index
\* has no entry for it and the tip is the tip from before the ingestion.
C8_ContextInvalidBlockOffChain ==
    [][last'.route = "rebuild_failed"
         => \E n \in DOMAIN blocks' :
               /\ n \notin DOMAIN blocks
               /\ ~OnBestChain(chain', n)
               /\ HasTail(chain') = HasTail(chain)
               /\ HasTail(chain) => tail(chain') = tail(chain)]_vars

\* C9: applying the pending transactions in insertion order to a copy of the
\* UTXO set never fails.
C9_MempoolAppliesToUtxo == ApplyAll(utxo_set, mem_pool).ok

\* C10: once a best-chain block holds a transaction spending r, ingesting a
\* transaction whose input is Reference(r) fails and leaves the mempool
\* unchanged.
C10_SpentOutputRejected ==
    \A transaction \in TxUniverse :
        LET input == transaction.body.input IN
        (input.type = "Reference" /\ SpentOnBestChain(input.reference))
            => LET r == add_transaction(State, transaction)
               IN  r.result = "err" /\ r.mem_pool = mem_pool

\* The output reference a pending transaction spends, as a set.
SpentBy(transaction) ==
    IF transaction.body.input.type = "Reference"
    THEN {transaction.body.input.reference} ELSE {}

\* C11: no two pending transactions spend the same output, and a transaction
\* spending an output that an earlier pending transaction spends is rejected.
C11_NoTwoPendingSpendSameOutput ==
    /\ \A i, j \in 1..Len(mem_pool) :
          i # j => SpentBy(mem_pool[i]) \cap SpentBy(mem_pool[j]) = {}
    /\ \A transaction \in TxUniverse :
          (\E i \in 1..Len(mem_pool) : SpentBy(mem_pool[i]) \cap SpentBy(transaction) # {})
              => add_transaction(State, transaction).result = "err"

\* C12: MemPool::add either appends exactly the new transaction, which it
\* does only below capacity and when the transaction validates against the
\* projected set, or returns an error and leaves the pending list unchanged;
\* the pending list never exceeds the capacity.
C12_AddAppendsOrRejects ==
    [][/\ Len(mem_pool') <= MemPoolSize
       /\ last'.op = "NewTransaction" =>
            \/ /\ last'.result = "ok"
               /\ Len(mem_pool) < MemPoolSize
               /\ \E transaction \in TxUniverse :
                     /\ mem_pool' = Append(mem_pool, transaction)
                     /\ ApplyAll(utxo_set, mem_pool).ok
                     /\ validate_transaction(ApplyAll(utxo_set, mem_pool).outputs,
                                             transaction) = "ok"
            \/ /\ last'.result = "err"
               /\ mem_pool' = mem_pool]_vars

\* C12 witness: a transaction was refused because the pool holds `size`
\* entries.
C12_Witness ==
    /\ last.op = "NewTransaction" /\ last.route = "MemPoolFull"
    /\ Len(mem_pool) = MemPoolSize

\* C13: ingesting a transaction, accepted or rejected, leaves the UTXO set,
\* the chain index, the block store and the orphans unchanged.
C13_TransactionIngestFrame ==
    [][last'.op = "NewTransaction"
         => UNCHANGED <<blocks, nodes, orphan_blocks, chain, utxo_set>>]_vars

\* C13 witness: a transaction was accepted on top of pending transactions whose
\* projection differs from the UTXO set.
C13_Witness ==
    /\ last.op = "NewTransaction" /\ last.result = "ok"
    /\ Len(mem_pool) >= 2
    /\ ApplyAll(utxo_set, mem_pool).ok
    /\ ApplyAll(utxo_set, mem_pool).outputs # utxo_set

\* The transactions carried by the blocks of the network.
BlockTransactions ==
    UNION {{block.transactions[i] : i \in 1..Len(block.transactions)} :
              block \in BlockUniverse \cup InvalidBlocks}

\* The references to the outputs of a transaction.
CreatedBy(transaction) ==
    {[id |-> TxId(transaction.body), index |-> i - 1] :
        i \in 1..Len(transaction.body.outputs)}

\* C15: applying a transaction removes the referenced output, inserts one
\* reference per output and leaves every other entry untouched; when the
\* referenced output is absent it fails and the set is as before.
C15_UpdateRemovesAndInserts ==
    \A transaction \in TxUniverse \cup BlockTransactions :
        LET r == update(utxo_set, transaction)
            spent == SpentBy(transaction)
            created == CreatedBy(transaction)
        IN  IF spent \subseteq DOMAIN utxo_set
            THEN /\ r.ok
                 /\ DOMAIN r.outputs = (DOMAIN utxo_set \ spent) \cup created
                 /\ \A x \in created : r.outputs[x] = transaction
                 /\ \A x \in DOMAIN utxo_set \ (spent \cup created) :
                       r.outputs[x] = utxo_set[x]
            ELSE ~r.ok /\ r.outputs = utxo_set

\* C15 witness: the UTXO set was rebuilt over a chain on which output 0 of
\* transaction 1 was spent, so that a further spend of it finds it absent.
C15_Witness ==
    /\ last.route = "retargeted"
    /\ SpentOnBestChain([id |-> 1, index |-> 0])
    /\ [id |-> 1, index |-> 0] \notin DOMAIN utxo_set
    /\ Cardinality(DOMAIN utxo_set) >= 3

RECURSIVE OutputsCreated(_)
\* Number of outputs of a list of transactions.
OutputsCreated(txs) ==
    IF txs = <<>> THEN 0
    ELSE Len(Head(txs).body.outputs) + OutputsCreated(Tail(txs))

RECURSIVE ReferencesConsumed(_)
\* Number of transactions of a list that have a Reference input.
ReferencesConsumed(txs) ==
    IF txs = <<>> THEN 0
    ELSE (IF Head(txs).body.input.type = "Reference" THEN 1 ELSE 0)
            + ReferencesConsumed(Tail(txs))

\* C16: the UTXO set has as many entries as outputs were created on the best
\* chain minus the transactions on the best chain with a Reference input.
C16_UtxoSizeIsCreatedMinusConsumed ==
    Cardinality(DOMAIN utxo_set)
        = OutputsCreated(BestChainTransactions) - ReferencesConsumed(BestChainTransactions)

\* The header's hash is at or below the target of the header's difficulty.
TargetMet(header) ==
    header.difficulty < HASH_BYTES /\ LeadingZeroBytes[HashOf(header)] >= header.difficulty

\* C17: every block on the best chain has a hash at or below the target of
\* its own difficulty.
C17_BestChainMeetsTarget == \A h \in DOMAIN chain : TargetMet(chain[h].header)

\* C17 witness: a block that misses its target was refused while its
\* predecessor is the tip of the best chain.
C17_Witness ==
    /\ last.op = "NewBlock" /\ last.route = "InvalidProofOfWork"
    /\ HasTail(chain)
    /\ \E block \in BlockUniverse :
          /\ ~TargetMet(block.header)
          /\ block.header.previous_block_hash = HashOf(tail(chain).header)

FailsHashRootOrSignature(block) ==
    \/ ~TargetMet(block.header)
    \/ block.header.merkle_root
          # [i \in 1..Len(block.transactions) |-> TxId(block.transactions[i].body)]
    \/ \E i \in 2..Len(block.transactions) :
          block.transactions[i].signing_info.signature
              # Sign(block.transactions[i].signing_info.public_key,
                     block.transactions[i].body)

\* C19: a block that misses its target, carries another merkle root than the
\* one over its transaction ids or holds a non-coinbase transaction with a bad
\* signature is rejected before it reaches the block store: afterwards it is
\* in neither the blocks, the chain nodes nor the orphans.
C19_InvalidBlockRejectedUnstored ==
    /\ \A hash \in DOMAIN blocks \cup DOMAIN nodes \cup DOMAIN orphan_blocks :
          \A block \in BlockUniverse \cup InvalidBlocks :
             HashOf(block.header) = hash => ~FailsHashRootOrSignature(block)
    /\ \A block \in BlockUniverse \cup InvalidBlocks :
          FailsHashRootOrSignature(block)
              => LET r == add_block(State, block)
                 IN  r.result = "err" /\ Fields(r) = State

\* C19 witness: a block with a badly signed transaction was refused while its
\* predecessor is connected.
C19_Witness ==
    /\ last.op = "NewBlock" /\ last.result = "err" /\ last.route = "InvalidSignature"
    /\ 1 \in DOMAIN nodes
    /\ DOMAIN blocks \cap {HashOf(block.header) : block \in InvalidBlocks} = {}

\* The first transaction of the block is a coinbase made for the block's
\* height that pays the reward of that height in its first output.
CoinbaseInOrder(block) ==
    /\ block.transactions # <<>>
    /\ block.transactions[1].body.input.type = "Coinbase"
    /\ block.transactions[1].body.input.block_height = block.height
    /\ block.transactions[1].body.outputs[1].value
          = GENESIS_BLOCK_REWARD \div (2 ^ (block.height \div BLOCKS_PER_REWARD_HALVING))

ReferencedOutput(reference) ==
    state_transactions[reference.id].body.outputs[reference.index + 1]

\* C14: validate_transaction accepts a transaction with a valid signature and
\* input Reference(r) exactly when r is in the set, the referenced output's
\* address is the address of the transaction's signing key and the output
\* values sum to the referenced value; a transaction with an invalid signature
\* is always rejected.  Stated of TransactionState::validate_transaction.
C14_ValidateIffOwnedAndBalanced ==
    \A transaction \in StateTxUniverse :
        LET v == TransactionState_validate_transaction(
                     state_transactions, state_uxto_set, transaction)
            input == transaction.body.input
        IN  /\ ~KeyedSignature_verify(transaction) => v # "ok"
            /\ (KeyedSignature_verify(transaction) /\ input.type = "Reference")
                  => (v = "ok"
                        <=> /\ input.reference \in state_uxto_set
                            /\ ReferencedOutput(input.reference).address
                                  = Address_from_public_key(transaction.signing_info.public_key)
                            /\ SumValues(transaction.body.outputs)
                                  = ReferencedOutput(input.reference).value)

\* The statement of C14 for UTXOSet::validate_transaction on the node's UTXO
\* set and on the set the mempool projects.
UtxoSetValidateIffOwnedAndBalanced ==
    \A transaction \in TxUniverse \cup BlockTransactions :
        \A outputs \in {utxo_set, ApplyAll(utxo_set, mem_pool).outputs} :
            LET v == validate_transaction(outputs, transaction)
                input == transaction.body.input
                signed == transaction.signing_info.signature
                             = Sign(transaction.signing_info.public_key, transaction.body)
            IN  /\ ~signed => v # "ok"
                /\ (signed /\ input.type = "Reference")
                      => (v = "ok"
                            <=> /\ input.reference \in DOMAIN outputs
                                /\ outputs[input.reference].body
                                      .outputs[input.reference.index + 1].address
                                      = Address_from_public_key(
                                            transaction.signing_info.public_key)
                                /\ SumValues(transaction.body.outputs)
                                      = outputs[input.reference].body
                                           .outputs[input.reference.index + 1].value)

\* Only the first transaction of the block has a Coinbase input.
OnlyFirstIsCoinbase(block) ==
    /\ block.transactions # <<>>
    /\ block.transactions[1].body.input.type = "Coinbase"
    /\ \A i \in 2..Len(block.transactions) :
          block.transactions[i].body.input.type = "Reference"

\* C21: in every block into_block returns and in every block on the best
\* chain only transactions[0] has a Coinbase input, so a transaction with a
\* Coinbase input that entered through NewTransaction is never a later
\* transaction of a block.
C21_OnlyFirstTransactionIsCoinbase ==
    /\ \A previous_block \in StoredBlocks :
          LET r == into_block(State, NodeKeypair, previous_block)
          IN  r.result = "ok" => OnlyFirstIsCoinbase(r.block)
    /\ \A block \in BuiltBlocks : OnlyFirstIsCoinbase(block)
    /\ \A h \in DOMAIN chain :
          HashOf(chain[h].header) \in DOMAIN blocks
              => OnlyFirstIsCoinbase(blocks[HashOf(chain[h].header)])

\* Every pending transaction validated against the set that the transactions
\* before it project from `outputs`.
Admitted(pending, outputs) ==
    \A i \in 1..Len(pending) :
        LET before == ApplyAll(outputs, SubSeq(pending, 1, i - 1))
        IN  before.ok /\ validate_transaction(before.outputs, pending[i]) = "ok"

\* The output references the transactions of a list spend.
AllSpentBy(txs) == UNION {SpentBy(txs[i]) : i \in 1..Len(txs)}

\* C22: when the pending transactions were admitted against the current UTXO
\* set, building a block on the current tip and ingesting it succeeds, raises
\* the tip height by one, leaves the mempool empty, puts every pending
\* transaction into the new tip block, and leaves in the UTXO set the outputs
\* of those transactions that none of them spends and none of the outputs
\* they spend.
C22_BuiltBlockExtendsChain ==
    (/\ HasTail(chain)
     /\ HashOf(tail(chain).header) \in DOMAIN blocks
     /\ Admitted(mem_pool, utxo_set))
        => LET tip == blocks[HashOf(tail(chain).header)]
               b == into_block(State, NodeKeypair, tip)
               after == add_block([State EXCEPT !.mem_pool = b.mem_pool], b.block)
               spent == AllSpentBy(mem_pool)
           IN  /\ b.result = "ok"
               /\ after.result = "ok"
               /\ height(after.chain) = height(chain) + 1
               /\ after.mem_pool = <<>>
               /\ tail(after.chain).header = b.block.header
               /\ after.blocks[HashOf(b.block.header)] = b.block
               /\ \A i \in 1..Len(mem_pool) :
                     /\ \E j \in 1..Len(b.block.transactions) :
                           b.block.transactions[j] = mem_pool[i]
                     /\ CreatedBy(mem_pool[i]) \ spent \subseteq DOMAIN after.utxo_set
               /\ spent \cap DOMAIN after.utxo_set = {}

\* The transaction spends, with the owner's signature and with outputs that
\* sum to its value, an output that a pending transaction created and that is
\* not in the UTXO set.
SpendsPendingOutput(transaction) ==
    /\ transaction.body.input.type = "Reference"
    /\ transaction.body.input.reference \notin DOMAIN utxo_set
    /\ transaction.signing_info.signature
          = Sign(transaction.signing_info.public_key, transaction.body)
    /\ \E i \in 1..Len(mem_pool) :
          LET r == transaction.body.input.reference IN
          /\ r \in CreatedBy(mem_pool[i])
          /\ mem_pool[i].body.outputs[r.index + 1].address
                = Address_from_public_key(transaction.signing_info.public_key)
          /\ mem_pool[i].body.outputs[r.index + 1].value
                = SumValues(transaction.body.outputs)

\* C23 (as claimed): a transaction that spends an output of a pending
\* transaction, signed by its owner and with matching values, is admitted and
\* appended behind the pending transactions.
C23_DependentTransactionAdmitted ==
    \A transaction \in PoolTxUniverse :
        SpendsPendingOutput(transaction)
            => LET r == add_transaction(State, transaction)
               IN  r.result = "ok" /\ r.mem_pool = Append(mem_pool, transaction)

\* C23 (amended): such a transaction is admitted, and appended behind the
\* transaction it depends on, exactly when the pool is below its capacity and
\* the output is in the set obtained by applying the pending transactions in
\* order to a copy of the UTXO set (they all apply and none of them has spent
\* it); otherwise the add fails and the pool is as before.
C23_DependentTransactionAdmittedIfUnspent ==
    \A transaction \in PoolTxUniverse :
        SpendsPendingOutput(transaction)
            => LET r == add_transaction(State, transaction)
                   projected == ApplyAll(utxo_set, mem_pool)
                   spendable ==
                       /\ Len(mem_pool) < MemPoolSize
                       /\ projected.ok
                       /\ transaction.body.input.reference \in DOMAIN projected.outputs
               IN  IF spendable
                   THEN r.result = "ok" /\ r.mem_pool = Append(mem_pool, transaction)
                   ELSE r.result = "err" /\ r.mem_pool = mem_pool

\* C23 witness: the last transaction was admitted and spends an output of an
\* earlier pending transaction that the UTXO set does not hold.
C23_Witness ==
    /\ last.op = "NewTransaction" /\ last.result = "ok"
    /\ Len(mem_pool) >= 2
    /\ LET transaction == mem_pool[Len(mem_pool)] IN
       /\ transaction.body.input.type = "Reference"
       /\ transaction.body.input.reference \notin DOMAIN utxo_set
       /\ \E i \in 1..(Len(mem_pool) - 1) :
             transaction.body.input.reference \in CreatedBy(mem_pool[i])

\* C24: no step removes or replaces an entry of the block store, whether or
\* not the block is on the best chain afterwards.
C24_BlocksStayStored ==
    [][\A hash \in DOMAIN blocks : hash \in DOMAIN blocks' /\ blocks'[hash] = blocks[hash]]_vars

\* C24 witness: after a redirection of the chain a block of the store is off
\* the best chain, and a transaction was ingested since.
C24_Witness ==
    /\ last.op = "NewTransaction"
    /\ HasTail(chain)
    /\ \E hash \in DOMAIN blocks :
          /\ ~OnBestChain(chain, hash)
          /\ blocks[hash].height = height(chain)

\* C25: signing leaves the id of a transaction as it was, and the transaction
\* signed with any other key has the same id.
C25_SigningKeepsId ==
    (call.op = "sign" /\ call.done)
        => /\ call.id_after = call.id_before
           /\ call.result.body = call.tx.body
           /\ \A key \in KeyPairs :
                 Transaction_id(Transaction_sign(call.tx, key)) = call.id_after

\* C25 witness: a transaction signed by one key was signed again with another
\* and carries another signature now.
C25_Witness ==
    /\ call.op = "sign" /\ call.done
    /\ call.tx.signing_info.public_key \in KeyPairs \ {call.key}
    /\ call.result.signing_info # call.tx.signing_info

RECURSIVE Halved(_, _)
\* `value` halved n times, each time rounding down.
Halved(value, n) == IF n = 0 THEN value ELSE Halved(value \div 2, n - 1)

\* The values of the reward schedule for the heights below 40.
RewardSchedule(h) ==
    IF h < 10 THEN 50 ELSE IF h < 20 THEN 25 ELSE IF h < 30 THEN 12 ELSE 6

\* C26: block_reward(h) returns floor(GENESIS_BLOCK_REWARD / 2^(h div
\* BLOCKS_PER_REWARD_HALVING)), which is 50, 25, 12, 6 for the four first
\* intervals of ten heights, and no height gets more than a lower height.
C26_RewardHalves ==
    (call.op = "block_reward" /\ call.done)
        => /\ ~call.aborted
           /\ call.value = Halved(GENESIS_BLOCK_REWARD, call.height \div BLOCKS_PER_REWARD_HALVING)
           /\ call.height < 40 => call.value = RewardSchedule(call.height)
           /\ \A lower \in 0..call.height :
                 ~block_reward_aborts(lower) /\ block_reward(lower) >= call.value

\* The statement of C26 for the heights at which block_reward returns.
RewardHalvesWhereItReturns ==
    (call.op = "block_reward" /\ call.done /\ ~call.aborted)
        => /\ call.value = Halved(GENESIS_BLOCK_REWARD, call.height \div BLOCKS_PER_REWARD_HALVING)
           /\ call.height < 40 => call.value = RewardSchedule(call.height)
           /\ \A lower \in 0..call.height : block_reward(lower) >= call.value

\* hash <= target as big-endian numbers: they are equal, or at the first byte
\* in which they differ the hash has the smaller byte.
BigEndianAtMost(hash, target) ==
    \/ hash = target
    \/ \E i \in 1..HASH_BYTES :
          /\ hash[i] < target[i]
          /\ \A j \in 1..(i - 1) : hash[j] = target[j]

\* C27: for a difficulty d below 32 the target has 0xFF in the byte at index
\* d (counted from 0) and 0 in every other byte; a difficulty of 32 or more
\* is an error; a hash meets a target exactly when it is at most the target
\* as a big-endian number, equality included.
C27_TargetAndComparison ==
    /\ (call.op = "difficulty_target" /\ call.done)
          => IF call.difficulty < 32
             THEN /\ call.result.ok
                  /\ call.result.target
                        = [i \in 1..32 |-> IF i = call.difficulty + 1 THEN 255 ELSE 0]
             ELSE ~call.result.ok
    /\ (call.op = "target_met" /\ call.done)
          => (call.result <=> BigEndianAtMost(call.hash, call.target))

\* C27 witness: a hash equal to its target was found to meet it.
C27_Witness ==
    /\ call.op = "target_met" /\ call.done
    /\ call.hash = call.target
    /\ call.result

\* The header with this nonce meets the target of the header's difficulty.
NonceMeetsTarget(header, nonce) ==
    BigEndianAtMost(HashBytes([header EXCEPT !.nonce = nonce]),
                    [i \in 1..HASH_BYTES |-> IF i = header.difficulty + 1 THEN U8_MAX ELSE 0])

\* C28: mine fails for a difficulty of 32 or more; otherwise it leaves in
\* header.nonce the smallest nonce with which the header meets its target,
\* validate_hash accepts the header, and nothing but header.nonce changed.
C28_MineFindsSmallestNonce ==
    (call.op = "mine" /\ call.done)
        => IF call.block.header.difficulty >= HASH_BYTES
           THEN ~call.result.ok
           ELSE /\ call.result.ok
                /\ NonceMeetsTarget(call.block.header, call.result.block.header.nonce)
                /\ \A nonce \in 0..(call.result.block.header.nonce - 1) :
                      ~NonceMeetsTarget(call.block.header, nonce)
                /\ validate_hash(call.result.block.header) = "ok"
                /\ call.result.block
                      = [call.block EXCEPT !.header.nonce = call.result.block.header.nonce]

\* C28 witness: mining went past several nonces, one of which gave a hash
\* with the leading zero bytes of the target and yet above it.
C28_Witness ==
    /\ call.op = "mine" /\ call.done /\ call.result.ok
    /\ call.result.block.header.nonce >= 3
    /\ call.block.header.difficulty >= 1
    /\ \E nonce \in 0..(call.result.block.header.nonce - 1) :
          LET hash == HashBytes([call.block.header EXCEPT !.nonce = nonce])
          IN  \A i \in 1..call.block.header.difficulty : hash[i] = 0

\* C29: output_reference(tx, i) is the reference (id of tx, i) for an index
\* below the number of outputs and an error for any index from that number on.
C29_OutputReferenceBounds ==
    (call.op = "output_reference" /\ call.done)
        => IF call.index < Len(call.tx.body.outputs)
           THEN /\ call.result.ok
                /\ call.result.reference = [id |-> TxId(call.tx.body), index |-> call.index]
           ELSE ~call.result.ok

\* C29 witness: the index equal to the number of outputs was refused for a
\* transaction with two outputs.
C29_Witness ==
    /\ call.op = "output_reference" /\ call.done
    /\ Len(call.tx.body.outputs) = 2
    /\ call.index = 2
    /\ ~call.result.ok

\* C30: the chain index is a linked path: its heights are contiguous and
\* every entry above the lowest holds the node whose predecessor is the entry
\* one height below, by handle and by previous_block_hash, at a height one
\* above it; and a block whose height is not its predecessor's plus one is not
\* on the best chain.
C30_BestChainIsLinkedPath ==
    /\ \A h \in DOMAIN chain :
          (\E lower \in DOMAIN chain : lower < h)
              => /\ h - 1 \in DOMAIN chain
                 /\ chain[h].previous = HashOf(chain[h - 1].header)
                 /\ chain[h].header.previous_block_hash = HashOf(chain[h - 1].header)
                 /\ chain[h].height = chain[h - 1].height + 1
    /\ \A n \in DOMAIN nodes :
          (/\ nodes[n].previous # NoNode
           /\ nodes[n].height # nodes[nodes[n].previous].height + 1)
              => ~OnBestChain(chain, n)

\* C31: an ingestion that puts the block among the orphans, or that connects
\* a node with less cumulative work than the tip has, returns Ok and leaves
\* the chain index, the UTXO set and the mempool as they were.
C31_OrphanOrLighterLeavesChain ==
    \A block \in BlockUniverse :
        LET r == add_block(State, block) IN
        (r.route = "orphaned" \/ r.cmp = "lt")
            => /\ r.result = "ok"
               /\ r.chain = chain
               /\ r.utxo_set = utxo_set
               /\ r.mem_pool = mem_pool

\* C31 witness: a block was connected below the work of the tip while
\* transactions were pending and an orphan was held.
C31_Witness ==
    /\ last.op = "NewBlock" /\ last.route = "lighter" /\ last.cmp = "lt"
    /\ mem_pool # <<>>
    /\ DOMAIN orphan_blocks # {}
    /\ utxo_set # EmptyMap

RECURSIVE SumOver(_, _)
\* The sum of f over the finite set S.
SumOver(f, S) ==
    IF S = {} THEN 0
    ELSE LET x == CHOOSE x \in S : TRUE IN f[x] + SumOver(f, S \ {x})

\* The value the UTXO set holds: that of the output each reference points to.
UtxoValue ==
    SumOver([r \in DOMAIN utxo_set |-> utxo_set[r].body.outputs[r.index + 1].value],
            DOMAIN utxo_set)

RECURSIVE CoinbaseValue(_)
\* The output values of the transactions of a list that have a Coinbase input.
CoinbaseValue(txs) ==
    IF txs = <<>> THEN 0
    ELSE (IF Head(txs).body.input.type = "Coinbase"
          THEN SumValues(Head(txs).body.outputs) ELSE 0)
            + CoinbaseValue(Tail(txs))

\* C32: every transaction of the best chain with a Reference input spends an
\* output that an earlier best-chain transaction created, is signed by the key
\* of that output's address and creates exactly the value of that output; and
\* the value held in the UTXO set is the sum of the coinbase outputs of the
\* best chain.
C32_ValueConservedOnBestChain ==
    LET txs == BestChainTransactions IN
    /\ \A i \in 1..Len(txs) :
          txs[i].body.input.type = "Reference"
              => \E j \in 1..(i - 1) :
                    LET r == txs[i].body.input.reference IN
                    /\ r \in CreatedBy(txs[j])
                    /\ txs[j].body.outputs[r.index + 1].address
                          = Address_from_public_key(txs[i].signing_info.public_key)
                    /\ txs[j].body.outputs[r.index + 1].value
                          = SumValues(txs[i].body.outputs)
    /\ UtxoValue = CoinbaseValue(txs)

\* No two chain nodes of the node map have the same cumulative work.
DistinctWork(nodeMap) ==
    \A n, m \in DOMAIN nodeMap : nodeMap[n].work = nodeMap[m].work => n = m

\* C33: two nodes that ingested the same blocks in different orders, no two
\* of their chain nodes having equal cumulative work, have the same chain
\* index (hence the same tip) and the same UTXO set.
C33_BestChainIndependentOfOrder ==
    (/\ call.op = "ingest_orders" /\ call.done
     /\ DistinctWork(call.left.nodes) /\ DistinctWork(call.right.nodes))
        => /\ call.left.chain = call.right.chain
           /\ call.left.utxo_set = call.right.utxo_set

\* C34: when into_block returns an error the mempool holds the transactions
\* it held before the call, in the same order.
C34_FailedBuildKeepsMempool ==
    \A previous_block \in StoredBlocks \cup UnminableBlocks :
        LET r == into_block(State, NodeKeypair, previous_block)
        IN  r.result = "err" => r.mem_pool = mem_pool

\* The block is a successor of `previous` as Block::new makes it: one height
\* up, same difficulty, a coinbase of the reward of its height to the node's
\* key first, then the pending transactions in their order.
BuiltOn(block, previous, pending) ==
    /\ block.height = previous.height + 1
    /\ block.header.difficulty = previous.header.difficulty
    /\ Len(block.transactions) = Len(pending) + 1
    /\ block.transactions[1].body.input = Coinbase(block.height)
    /\ block.transactions[1].body.outputs = <<Output(block_reward(block.height), NodeKeypair)>>
    /\ SubSeq(block.transactions, 2, Len(block.transactions)) = pending

\* C35 (as claimed): into_block empties the mempool and the block it returns
\* is built on the previous block and has the hash of the current tip's
\* header in previous_block_hash.
C35_BuiltBlockLinksToTip ==
    \A previous_block \in StoredBlocks \cup UnminableBlocks :
        LET r == into_block(State, NodeKeypair, previous_block) IN
        /\ r.mem_pool = <<>>
        /\ r.result = "ok"
              => /\ BuiltOn(r.block, previous_block, mem_pool)
                 /\ HasTail(chain)
                 /\ r.block.header.previous_block_hash = HashOf(tail(chain).header)

\* C35 (amended): into_block empties the mempool and the block it returns is
\* built on the previous block and has the hash of that block's header in
\* previous_block_hash, the tip's only when the previous block is the tip.
C35_BuiltBlockLinksToPrevious ==
    \A previous_block \in StoredBlocks \cup UnminableBlocks :
        LET r == into_block(State, NodeKeypair, previous_block) IN
        /\ r.mem_pool = <<>>
        /\ r.result = "ok"
              => /\ BuiltOn(r.block, previous_block, mem_pool)
                 /\ r.block.header.previous_block_hash = HashOf(previous_block.header)
                 /\ (HasTail(chain) /\ tail(chain).header # previous_block.header)
                       => r.block.header.previous_block_hash # HashOf(tail(chain).header)

\* C35 witness: into_block returned a block with two drained transactions
\* behind its coinbase; the block is the tip now, and the block it was built
\* on is still stored.
C35_Witness ==
    /\ built # <<>>
    /\ Len(built[1].transactions) = 3
    /\ mem_pool = <<>>
    /\ HasTail(chain)
    /\ tail(chain).header = built[1].header
    /\ \E previous_block \in StoredBlocks : previous_block.header # tail(chain).header

RECURSIVE BigValue(_)
\* The number a digit sequence stands for.
BigValue(a) == IF a = <<>> THEN 0 ELSE a[1] + 256 * BigValue(Tail(a))

\* The per-block work of the node and of all its ancestors, added up.
AncestryWork(handle, nodeMap) ==
    SumOver([a \in Ancestry(handle, nodeMap) |-> block_work(nodeMap[a].header.difficulty)],
            Ancestry(handle, nodeMap))

\* The work of every node of the map is the sum over its ancestry and
\* exceeds the work of its predecessor.
WorkAddsUp(nodeMap) ==
    \A n \in DOMAIN nodeMap :
        /\ nodeMap[n].work = AncestryWork(n, nodeMap)
        /\ nodeMap[n].previous # NoNode => nodeMap[n].work > nodeMap[nodeMap[n].previous].work

\* C36: calculate_work returns the work of the predecessor plus the work of
\* the block, an error from difficulty 32 on; the work of a block is at least
\* 1 and grows strictly with the difficulty over 0..31, so the result exceeds
\* the work of the predecessor; the work of every chain node two nodes hold
\* after ingesting blocks is the sum of the per-block work over the node and
\* its ancestors and exceeds its predecessor's; and an append_block that puts
\* a new node on a chain leaves the chain with strictly more work.
C36_WorkIsSumAndGrows ==
    /\ (call.op = "calculate_work" /\ call.done)
          => IF call.difficulty >= HASH_BYTES THEN ~call.result.ok
             ELSE LET own == BlockWorkOf[call.difficulty] IN
                  /\ call.result.ok
                  /\ call.result.work = BigAdd(call.previous_work, own)
                  /\ BigCmp(call.result.work, call.previous_work) = "Greater"
                  /\ BigCmp(own, BigOne) # "Less"
                  /\ \A lower \in 0..(call.difficulty - 1) :
                         BigCmp(BlockWorkOf[lower], own) = "Less"
                  /\ Len(own) <= 3 => BigValue(own) = block_work(call.difficulty)
    /\ (call.op = "ingest_orders" /\ call.done)
          => WorkAddsUp(call.left.nodes) /\ WorkAddsUp(call.right.nodes)
    /\ (call.op = "append_block" /\ call.done /\ call.result.ok
        /\ ~chain_contains_block(call.before, call.block))
          => /\ tail(call.result.chain).header = call.block.header
             /\ chain_work(call.result.chain) > chain_work(call.before)
             /\ tail(call.result.chain).work
                    = chain_work(call.before) + block_work(call.block.header.difficulty)

\* C36 witness: calculate_work was called for the greatest difficulty that
\* has a target, with a predecessor that has work, and returned a work.
C36_Witness ==
    /\ call.op = "calculate_work"
    /\ call.done
    /\ call.difficulty = HASH_BYTES - 1
    /\ call.previous_work = max_target
    /\ call.result.ok
    /\ Len(call.result.work) = HASH_BYTES + 1

\* The nodes among a node and its ancestors that the chain contains.
OnChain(c, handle, nodeMap) ==
    {a \in Ancestry(handle, nodeMap) : contains_node(c, nodeMap[a])}

\* Every node of the chain is the node or one of its ancestors.
IsPrefixOfPath(c, handle, nodeMap) ==
    \A h \in DOMAIN c : c[h] \in {nodeMap[a] : a \in Ancestry(handle, nodeMap)}

\* C37: find_fork(n) on a chain returns the node of the greatest height among
\* n and its ancestors that the chain contains, none when the chain contains
\* none of them, and the tip of the chain when every node of the chain is n
\* or an ancestor of n.
C37_ForkIsHighestCommonNode ==
    (call.op = "find_fork" /\ call.done)
        => LET on == OnChain(call.chain, call.node, call.nodes) IN
           /\ on = {} => call.result = NoNode
           /\ on # {}
                 => /\ call.result \in on
                    /\ \A a \in on : call.nodes[a].height <= call.nodes[call.result].height
           /\ (HasTail(call.chain) /\ IsPrefixOfPath(call.chain, call.node, call.nodes))
                 => /\ call.result # NoNode
                    /\ call.nodes[call.result] = tail(call.chain)

\* C38: block_reward returns a value for every height and never aborts, the
\* value 0 for the heights at or beyond 32 halving intervals.
C38_RewardIsTotal ==
    (call.op = "block_reward" /\ call.done)
        => /\ ~call.aborted
           /\ call.height \div BLOCKS_PER_REWARD_HALVING >= U32_BITS => call.value = 0

====
